---- MODULE Spec2Model ----
(***************************************************************************)
(* Table handling of xml-to-md.py: build_logical_table_grid, the global    *)
(* TABLE_PROCESSING_MODE set by main, render_table with its style decision *)
(* _check_table_has_non_solid_border, and render_table_struct; the        *)
(* row-span inference calculate_rowspan_from_border; and save_markdown_file *)
(* with normalize_yes_no.                                                  *)
(* Indices r_idx, c_idx, xml_col_idx are 0-based as in the source;         *)
(* sequences are 1-based, so body_rows[r_idx + 1] is the source's          *)
(* body_rows[r_idx].                                                       *)
(***************************************************************************)
EXTENDS Integers, Sequences, FiniteSets, TLC

\* Bounds of the model: a table has 1..MaxRows rows and at most MaxCells
\* declared cells in total.
MaxRows == 3
MaxCells == 3

\* An attribute the XML element does not carry (Element.get gives None).
None == "<None>"

\* A TableColumn element: its span and border attributes as the strings the
\* XML carries, and the text its content extracts to.
TableColumn(rowspan, colspan, text, BorderTop, BorderBottom) ==
    [rowspan |-> rowspan, colspan |-> colspan, text |-> text,
     BorderTop |-> BorderTop, BorderBottom |-> BorderBottom,
     BorderLeft |-> None, BorderRight |-> None]

\* The TableColumn elements of well-formed tables: spans absent or >= 1.
TableColumns ==
    { TableColumn(None, None, "t", None, None),
      TableColumn("2", None, "t", None, None),
      TableColumn("3", None, "t", None, None),
      TableColumn(None, "2", "t", None, None),
      TableColumn(None, None, "t", None, "none"),
      TableColumn(None, None, "", "none", None) }

\* The TableColumn elements of tables that may carry a negative span.
MalformedColumns ==
    { TableColumn(None, None, "t", None, None),
      TableColumn("2", None, "t", None, None),
      TableColumn(None, "2", "t", None, None),
      TableColumn("-1", None, "t", None, None),
      TableColumn(None, "-1", "t", None, None) }

RECURSIVE Sum(_)
Sum(s) == IF s = <<>> THEN 0 ELSE Head(s) + Sum(Tail(s))

\* The shapes of the tables: the number of TableColumn children of each of
\* the 1..MaxRows TableRow elements, MaxCells in total at most.
Shapes ==
    { shape \in UNION { [1..n -> 0..MaxCells] : n \in 1..MaxRows } :
        Sum(shape) <= MaxCells }

\* The table of the given shape whose TableColumn elements are, in document
\* order, cells.
TableOf(shape, cells) ==
    [r \in 1..Len(shape) |->
        [i \in 1..shape[r] |-> cells[Sum(SubSeq(shape, 1, r - 1)) + i]]]

VARIABLES
    TABLE_PROCESSING_MODE,  \* the global set by main
    body_rows,              \* the table's TableRow elements
    pc,                     \* position in main / build_logical_table_grid
    occupied_cells,         \* set of <<row, column>> reserved by spans
    logical_rows,           \* the rows resolved so far
    r_idx,                  \* index of the row being scanned
    current_row_cells,      \* the cells of the row being scanned
    xml_col_idx,            \* index of the next TableColumn of the row
    c_idx,                  \* visual column of the scan
    runs,                   \* <<mode, grid>> of the conversions completed
    ts,                     \* render_table_struct: the TableStruct element
    table,                  \* render_table: the Table element
    header,                 \* render_table: table.find("TableHeaderRow")
    has_non_solid_border,   \* render_table: the style decision
    html_lines,             \* render_table: the lines emitted so far
    html,                   \* the output of the caller of render_table
    tables,                 \* the Table elements the caller has yet to render
    inference,              \* calculate_rowspan_from_border: call and result
    fs,                     \* the file system: the content of the target file
    save                    \* save_markdown_file: arguments and locals

\* The state of build_logical_table_grid and main.
grid_vars == <<TABLE_PROCESSING_MODE, body_rows, pc, occupied_cells,
               logical_rows, r_idx, current_row_cells, xml_col_idx, c_idx,
               runs>>

grid_vars_but_pc == <<TABLE_PROCESSING_MODE, body_rows, occupied_cells,
                      logical_rows, r_idx, current_row_cells, xml_col_idx,
                      c_idx, runs>>

\* The state of render_table and render_table_struct.
render_vars == <<ts, table, header, has_non_solid_border, html_lines, html>>

\* The state of the other functions of the model.
aux_vars == <<tables, inference, fs, save>>

vars == <<grid_vars, render_vars, aux_vars>>

\* Python's int() on the attribute strings of the model; a string outside
\* the domain raises ValueError.
int == ("-1" :> -1) @@ ("0" :> 0) @@ ("1" :> 1) @@ ("2" :> 2) @@ ("3" :> 3)

\* A span read without the fallback: 0 for a string that is not a number.
SpanAttrOrZero(col_xml, name) ==
    IF col_xml[name] = None THEN 1
    ELSE IF col_xml[name] \in DOMAIN int THEN int[col_xml[name]]
    ELSE 0

\* try: int(col_xml.get(name, 1)) except ValueError: 1
SpanAttr(col_xml, name) ==
    IF col_xml[name] = None THEN 1
    ELSE IF col_xml[name] \in DOMAIN int THEN int[col_xml[name]]
    ELSE 1

\* rowspan as a version that, in hybrid mode, took a bottom border of none on
\* a cell with text for a span of two rows would compute it.
rowspan_from_bottom_border(col_xml) ==
    IF /\ TABLE_PROCESSING_MODE = "hybrid"
       /\ col_xml.BorderBottom = "none"
       /\ col_xml.text # ""
       /\ SpanAttr(col_xml, "rowspan") <= 1
    THEN 2
    ELSE SpanAttr(col_xml, "rowspan")

rowspan(col_xml) == SpanAttr(col_xml, "rowspan")

colspan(col_xml) == SpanAttr(col_xml, "colspan")

\* row_xml.findall("TableColumn") of the row being scanned
xml_cols == body_rows[r_idx + 1]

\* The 'occupied' placeholder appended for a reserved position.
occupied_cell == [type |-> "occupied", rs |-> 1, colspan |-> 1]

\* The 'data' cell built from a TableColumn; xml identifies the element by
\* its row and its index in the row.
cell_data(col_xml, r, i) ==
    [type |-> "data", text |-> col_xml.text, xml |-> <<r, i>>,
     rs |-> rowspan(col_xml), colspan |-> colspan(col_xml),
     bt |-> col_xml.BorderTop, bb |-> col_xml.BorderBottom,
     bl |-> col_xml.BorderLeft, br |-> col_xml.BorderRight]

\* A reservation that holds the columns for one row more than the span.
reserved_one_row_more(r, c, rs, cs) ==
    { <<r + r_off, c + c_off>> : r_off \in 0..rs, c_off \in 0..(cs - 1) }
        \ { <<r, c>> }

\* The positions a cell placed at (r, c) adds to occupied_cells.
reserved(r, c, rs, cs) ==
    { <<r + r_off, c + c_off>> : r_off \in 0..(rs - 1), c_off \in 0..(cs - 1) }
        \ { <<r, c>> }

\* The occupancy test with row and column exchanged.
is_occupied_transposed(r, c) == <<c, r>> \in occupied_cells

\* (r_idx, c_idx) in occupied_cells
is_occupied(r, c) == <<r, c>> \in occupied_cells

\* Nothing else has been called: no table is waiting, no inference has been
\* made, and no file is being saved.
InitAux ==
    /\ tables = <<>>
    /\ inference = <<>>
    /\ fs = <<>>
    /\ save = <<>>

\* The state when the converter starts on a document whose table is built
\* from the given TableColumn elements.
InitWith(columns) ==
    /\ TABLE_PROCESSING_MODE = "hybrid"
    /\ \E shape \in Shapes :
         \E cells \in [1..Sum(shape) -> columns] :
            body_rows = TableOf(shape, cells)
    /\ pc = "main"
    /\ occupied_cells = {}
    /\ logical_rows = <<>>
    /\ r_idx = 0
    /\ current_row_cells = <<>>
    /\ xml_col_idx = 0
    /\ c_idx = 0
    /\ runs = <<>>
    /\ ts = <<>>
    /\ table = <<>>
    /\ header = <<>>
    /\ has_non_solid_border = FALSE
    /\ html_lines = <<>>
    /\ html = <<>>
    /\ InitAux

Init == InitWith(TableColumns)

InitMalformed == InitWith(MalformedColumns)

\* main: the --table-mode argument is stored in the global. A second
\* conversion is given the mode the first one did not have.
Main(table_mode) ==
    /\ pc = "main"
    /\ \A i \in DOMAIN runs : runs[i].mode # table_mode
    /\ TABLE_PROCESSING_MODE' = table_mode
    /\ pc' = "render"
    /\ UNCHANGED render_vars
    /\ UNCHANGED aux_vars
    /\ UNCHANGED <<body_rows, occupied_cells, logical_rows, r_idx,
                   current_row_cells, xml_col_idx, c_idx, runs>>

\* A call that starts from the occupancy set the previous call left.
BuildOnPreviousOccupancy ==
    /\ pc = "render"
    /\ logical_rows' = <<>>
    /\ r_idx' = 0
    /\ current_row_cells' = <<>>
    /\ xml_col_idx' = 0
    /\ c_idx' = 0
    /\ pc' = "for"
    /\ UNCHANGED render_vars
    /\ UNCHANGED aux_vars
    /\ UNCHANGED <<TABLE_PROCESSING_MODE, body_rows, occupied_cells, runs>>

\* render_table calls build_logical_table_grid, which starts from an empty
\* occupancy set and an empty result.
Build ==
    /\ pc = "render"
    /\ occupied_cells' = {}
    /\ logical_rows' = <<>>
    /\ r_idx' = 0
    /\ current_row_cells' = <<>>
    /\ xml_col_idx' = 0
    /\ c_idx' = 0
    /\ pc' = "for"
    /\ UNCHANGED render_vars
    /\ UNCHANGED aux_vars
    /\ UNCHANGED <<TABLE_PROCESSING_MODE, body_rows, runs>>

\* for r_idx, row_xml in enumerate(body_rows): the next row's scan starts.
RowBegin ==
    /\ pc = "for"
    /\ r_idx < Len(body_rows)
    /\ current_row_cells' = <<>>
    /\ xml_col_idx' = 0
    /\ c_idx' = 0
    /\ pc' = "while"
    /\ UNCHANGED render_vars
    /\ UNCHANGED aux_vars
    /\ UNCHANGED <<TABLE_PROCESSING_MODE, body_rows, occupied_cells,
                   logical_rows, r_idx, runs>>

\* A pass at a reserved position that leaves the scan where it is.
ScanOccupiedInPlace ==
    /\ pc = "while"
    /\ is_occupied(r_idx, c_idx)
    /\ UNCHANGED vars

\* One pass of the while loop at a reserved position.
ScanOccupied ==
    /\ pc = "while"
    /\ is_occupied(r_idx, c_idx)
    /\ current_row_cells' = Append(current_row_cells, occupied_cell)
    /\ c_idx' = c_idx + 1
    /\ UNCHANGED render_vars
    /\ UNCHANGED aux_vars
    /\ UNCHANGED <<TABLE_PROCESSING_MODE, body_rows, pc, occupied_cells,
                   logical_rows, r_idx, xml_col_idx, runs>>

\* One pass of the while loop that places the next TableColumn.
ScanData ==
    /\ pc = "while"
    /\ ~ is_occupied(r_idx, c_idx)
    /\ xml_col_idx < Len(xml_cols)
    /\ LET col_xml == xml_cols[xml_col_idx + 1]
       IN /\ current_row_cells' =
                Append(current_row_cells, cell_data(col_xml, r_idx, xml_col_idx))
          /\ occupied_cells' = occupied_cells \cup
                reserved(r_idx, c_idx, rowspan(col_xml), colspan(col_xml))
          /\ c_idx' = c_idx + colspan(col_xml)
    /\ xml_col_idx' = xml_col_idx + 1
    /\ UNCHANGED render_vars
    /\ UNCHANGED aux_vars
    /\ UNCHANGED <<TABLE_PROCESSING_MODE, body_rows, pc, logical_rows, r_idx,
                   runs>>

\* The end of a row in a version that appends only rows that hold a cell.
RowEndSkippingEmpty ==
    /\ pc = "while"
    /\ ~ is_occupied(r_idx, c_idx)
    /\ ~ (xml_col_idx < Len(xml_cols))
    /\ logical_rows' = IF current_row_cells = <<>> THEN logical_rows
                       ELSE Append(logical_rows, current_row_cells)
    /\ r_idx' = r_idx + 1
    /\ pc' = "for"
    /\ UNCHANGED render_vars
    /\ UNCHANGED aux_vars
    /\ UNCHANGED <<TABLE_PROCESSING_MODE, body_rows, occupied_cells,
                   current_row_cells, xml_col_idx, c_idx, runs>>

\* The while loop ends (its condition is false, or its else branch breaks)
\* and the row is appended to the result.
RowEnd ==
    /\ pc = "while"
    /\ ~ is_occupied(r_idx, c_idx)
    /\ ~ (xml_col_idx < Len(xml_cols))
    /\ logical_rows' = Append(logical_rows, current_row_cells)
    /\ r_idx' = r_idx + 1
    /\ pc' = "for"
    /\ UNCHANGED render_vars
    /\ UNCHANGED aux_vars
    /\ UNCHANGED <<TABLE_PROCESSING_MODE, body_rows, occupied_cells,
                   current_row_cells, xml_col_idx, c_idx, runs>>

\* return logical_rows
Return ==
    /\ pc = "for"
    /\ r_idx = Len(body_rows)
    /\ pc' = "done"
    /\ UNCHANGED render_vars
    /\ UNCHANGED aux_vars
    /\ UNCHANGED <<TABLE_PROCESSING_MODE, body_rows, occupied_cells,
                   logical_rows, r_idx, current_row_cells, xml_col_idx, c_idx,
                   runs>>

\* The converter is started once more on the same document; the grid of the
\* first conversion is kept for comparison.
Rerun ==
    /\ pc = "done"
    /\ runs = <<>>
    /\ runs' = <<[mode |-> TABLE_PROCESSING_MODE, grid |-> logical_rows]>>
    /\ TABLE_PROCESSING_MODE' = "hybrid"
    /\ pc' = "main"
    /\ UNCHANGED render_vars
    /\ UNCHANGED aux_vars
    /\ UNCHANGED <<body_rows, occupied_cells, logical_rows, r_idx,
                   current_row_cells, xml_col_idx, c_idx>>

Next ==
    \/ \E table_mode \in {"hybrid", "strict"} : Main(table_mode)
    \/ Build
    \/ RowBegin
    \/ ScanOccupied
    \/ ScanData
    \/ RowEnd
    \/ Return
    \/ Rerun

Spec == Init /\ [][Next]_vars

\* The same program on tables that may carry a negative span.
SpecMalformed == InitMalformed /\ [][Next]_vars

\* The TableColumn elements of tables with any span values: spans that reach
\* beyond the table or into each other, a negative span, and spans that are
\* not numbers.
SpanColumns ==
    { TableColumn(None, None, "t", None, None),
      TableColumn("3", None, "t", None, None),
      TableColumn(None, "2", "t", None, None),
      TableColumn(None, "-1", "t", None, None),
      TableColumn("abc", "2", "t", None, None),
      TableColumn("2", "x", "t", None, None) }

\* build_logical_table_grid is called on the rows of one such table.
InitResolve ==
    /\ TABLE_PROCESSING_MODE = "hybrid"
    /\ \E shape \in Shapes :
         \E cells \in [1..Sum(shape) -> SpanColumns] :
            body_rows = TableOf(shape, cells)
    /\ pc = "render"
    /\ occupied_cells = {}
    /\ logical_rows = <<>>
    /\ r_idx = 0
    /\ current_row_cells = <<>>
    /\ xml_col_idx = 0
    /\ c_idx = 0
    /\ runs = <<>>
    /\ ts = <<>>
    /\ table = <<>>
    /\ header = <<>>
    /\ has_non_solid_border = FALSE
    /\ html_lines = <<>>
    /\ html = <<>>
    /\ InitAux

NextResolve ==
    \/ Build
    \/ RowBegin
    \/ ScanOccupied
    \/ ScanData
    \/ RowEnd
    \/ Return

\* One call of build_logical_table_grid.
SpecResolve == InitResolve /\ [][NextResolve]_vars

\* The same call, run to its end: the interpreter keeps executing the
\* function once it is called.
SpecResolveFair ==
    InitResolve /\ [][NextResolve]_vars /\ WF_vars(NextResolve)

\* The TableColumn elements of the tables of a document with several tables.
DocumentColumns ==
    { TableColumn(None, None, "t", None, None),
      TableColumn("2", None, "t", None, None),
      TableColumn("3", None, "t", None, None),
      TableColumn(None, "2", "t", None, None) }

\* A document with the tables T, U, T in this order, T and U being the first
\* rows and the other rows of a table of the model: the caller's loop is at
\* its first Table.
InitTables ==
    /\ TABLE_PROCESSING_MODE = "hybrid"
    /\ \E shape \in Shapes :
         \E cells \in [1..Sum(shape) -> DocumentColumns] :
           \E k \in 1..(Len(shape) - 1) :
             LET rows == TableOf(shape, cells)
             IN  /\ body_rows = SubSeq(rows, 1, k)
                 /\ tables = <<SubSeq(rows, k + 1, Len(rows)),
                               SubSeq(rows, 1, k)>>
    /\ pc = "render"
    /\ occupied_cells = {}
    /\ logical_rows = <<>>
    /\ r_idx = 0
    /\ current_row_cells = <<>>
    /\ xml_col_idx = 0
    /\ c_idx = 0
    /\ runs = <<>>
    /\ ts = <<>>
    /\ table = <<>>
    /\ header = <<>>
    /\ has_non_solid_border = FALSE
    /\ html_lines = <<>>
    /\ html = <<>>
    /\ inference = <<>>
    /\ fs = <<>>
    /\ save = <<>>

\* for t in elem.findall("Table"): the loop of the caller goes on to the next
\* Table; the rows and the grid of the table just resolved are kept for
\* comparison.
NextTable ==
    /\ pc = "done"
    /\ tables # <<>>
    /\ runs' = Append(runs, [mode |-> TABLE_PROCESSING_MODE,
                             grid |-> logical_rows, rows |-> body_rows])
    /\ body_rows' = Head(tables)
    /\ tables' = Tail(tables)
    /\ pc' = "render"
    /\ UNCHANGED <<TABLE_PROCESSING_MODE, occupied_cells, logical_rows, r_idx,
                   current_row_cells, xml_col_idx, c_idx>>
    /\ UNCHANGED render_vars
    /\ UNCHANGED <<inference, fs, save>>

NextTables ==
    \/ NextResolve
    \/ NextTable

\* build_logical_table_grid on the tables of one document, one after another.
SpecTables == InitTables /\ [][NextTables]_vars

(***************************************************************************)
(* save_markdown_file and normalize_yes_no. A string is the sequence of    *)
(* its characters; a full-width letter is named by its code point.         *)
(***************************************************************************)

\* Bound of the dialogue: input() is answered at most MaxPrompts times.
MaxPrompts == 2

\* Full-width y, n, Y, N.
FullWidth_y == "U+FF59"
FullWidth_n == "U+FF4E"
FullWidth_Y == "U+FF39"
FullWidth_N == "U+FF2E"

\* What the user may type at the prompt.
Answers ==
    { <<"y">>, <<"Y">>, <<FullWidth_y>>, <<FullWidth_Y>>, <<" ", "y", " ">>,
      <<"n">>, <<"N">>, <<FullWidth_N>>, <<FullWidth_n, " ">>,
      <<"y", "e", "s">>, <<"x">>, <<>>, <<" ">> }

\* str.strip()
RECURSIVE lstrip(_)
lstrip(str) ==
    IF str # <<>> /\ Head(str) = " " THEN lstrip(Tail(str)) ELSE str
RECURSIVE rstrip(_)
rstrip(str) ==
    IF str # <<>> /\ str[Len(str)] = " "
    THEN rstrip(SubSeq(str, 1, Len(str) - 1)) ELSE str
strip(str) == rstrip(lstrip(str))

\* str.maketrans of the four full-width letters to 'ynyn'
trans ==
    (FullWidth_y :> "y") @@ (FullWidth_n :> "n") @@
    (FullWidth_Y :> "y") @@ (FullWidth_N :> "n")

\* str.translate(trans)
translate(str) ==
    [i \in DOMAIN str |-> IF str[i] \in DOMAIN trans THEN trans[str[i]] ELSE str[i]]

\* str.lower() on the characters of the model
lower(str) ==
    [i \in DOMAIN str |->
        CASE str[i] = "Y" -> "y"
          [] str[i] = "N" -> "n"
          [] str[i] = FullWidth_Y -> FullWidth_y
          [] str[i] = FullWidth_N -> FullWidth_n
          [] OTHER -> str[i]]

\* A normalisation that leaves full-width letters as they are.
normalize_ascii_only(str) ==
    IF str = <<>> THEN str ELSE lower(strip(str))

\* normalize_yes_no(s)
normalize_yes_no(str) ==
    IF str = <<>> THEN str ELSE lower(strip(translate(str)))

\* save_markdown_file is called: the target file exists (with the content
\* "old") or does not, and force_overwrite is set or not. before keeps the
\* file as it was at the call.
InitSave ==
    /\ TABLE_PROCESSING_MODE = "hybrid"
    /\ body_rows = <<>>
    /\ occupied_cells = {}
    /\ logical_rows = <<>>
    /\ r_idx = 0
    /\ current_row_cells = <<>>
    /\ xml_col_idx = 0
    /\ c_idx = 0
    /\ runs = <<>>
    /\ header = <<>>
    /\ has_non_solid_border = FALSE
    /\ html_lines = <<>>
    /\ html = <<>>
    /\ pc = "save_markdown_file"
    /\ ts = <<>>
    /\ table = <<>>
    /\ tables = <<>>
    /\ inference = <<>>
    /\ fs \in { <<>>, <<"old">> }
    /\ \E force_overwrite \in BOOLEAN :
         save = <<[force_overwrite |-> force_overwrite, md_output |-> "new",
                   before |-> fs, answers |-> <<>>, choice |-> <<>>,
                   result |-> None]>>

\* Up to the test of os.path.exists(filename) and not force_overwrite.
SaveBegin ==
    /\ pc = "save_markdown_file"
    /\ pc' = IF fs # <<>> /\ ~ save[1].force_overwrite
             THEN "prompt" ELSE "write"
    /\ UNCHANGED <<grid_vars_but_pc, render_vars, tables, inference, fs, save>>

\* One pass of the while True loop: input() returns choice_raw.
Prompt(choice_raw) ==
    /\ pc = "prompt"
    /\ Len(save[1].answers) < MaxPrompts
    /\ LET choice == normalize_yes_no(strip(choice_raw))
       IN  /\ save' = <<[save[1] EXCEPT
                           !.answers = Append(@, choice_raw),
                           !.choice = choice,
                           !.result = IF choice = <<"n">> THEN "False" ELSE @]>>
           /\ pc' = IF choice = <<"y">> THEN "write"
                    ELSE IF choice = <<"n">> THEN "saved"
                    ELSE "prompt"
    /\ UNCHANGED <<grid_vars_but_pc, render_vars, tables, inference, fs>>

\* The try block: open(filename, "w") and f.write(md_output) succeed, or
\* open raises, or write raises after open has truncated the file.
Write(outcome) ==
    /\ pc = "write"
    /\ fs' = CASE outcome = "written" -> <<save[1].md_output>>
               [] outcome = "open raises" -> fs
               [] outcome = "write raises" -> <<"">>
    /\ save' = <<[save[1] EXCEPT
                    !.result = IF outcome = "written" THEN "True" ELSE "False"]>>
    /\ pc' = "saved"
    /\ UNCHANGED <<grid_vars_but_pc, render_vars, tables, inference>>

NextSave ==
    \/ SaveBegin
    \/ \E choice_raw \in Answers : Prompt(choice_raw)
    \/ \E outcome \in {"written", "open raises", "write raises"} : Write(outcome)

\* One call of save_markdown_file.
SpecSave == InitSave /\ [][NextSave]_vars

(***************************************************************************)
(* render_table and render_table_struct. An optional child element         *)
(* (TableHeaderRow, Table, TableStructTitle) is the sequence of the        *)
(* elements found: <<>> where find() gives None, <<e>> where it gives e.   *)
(***************************************************************************)

\* Bounds of the rendered tables: 0..MaxRenderRows TableRow elements, and at
\* most MaxRenderCells TableHeaderColumn and TableColumn elements in total.
MaxRenderRows == 2
MaxRenderCells == 3

\* The TableColumn elements of the rendered tables: no attribute, a border
\* declared solid, recognised non-solid styles on two edges, an unrecognised
\* border value, and the two spans.
RenderColumns ==
    { TableColumn(None, None, "t", None, None),
      TableColumn(None, None, "t", "solid", None),
      [TableColumn(None, None, "t", None, "none") EXCEPT !.BorderLeft = "dotted"],
      [TableColumn(None, None, "t", None, None) EXCEPT !.BorderRight = "bogus"],
      TableColumn("2", None, "t", None, None),
      TableColumn(None, "2", "t", None, None) }

\* The TableHeaderColumn elements: same attributes as a TableColumn.
HeaderColumns ==
    { TableColumn(None, None, "h", None, None),
      TableColumn("0", None, "h", "solid", None),
      TableColumn("2", None, "h", None, "double") }

\* table.find("TableHeaderRow") of the tables with at most n header columns:
\* no header row, or one with 0..n TableHeaderColumn children.
HeaderRows(n) ==
    { <<>> } \cup
    { <<cols>> : cols \in UNION { [1..k -> HeaderColumns] : k \in 0..n } }

\* The shapes of the bodies of the rendered tables.
RenderShapes ==
    { shape \in UNION { [1..n -> 0..MaxRenderCells] : n \in 0..MaxRenderRows } :
        Sum(shape) <= MaxRenderCells }

\* A Table element.
Table(WritingMode, TableHeaderRow, TableRow) ==
    [WritingMode |-> WritingMode, TableHeaderRow |-> TableHeaderRow,
     TableRow |-> TableRow]

\* Element.get(attr, default)
get(elem, attr, default) ==
    IF elem[attr] = None THEN default ELSE elem[attr]

\* dict.get(key, default)
dict_get(d, key, default) ==
    IF key \in DOMAIN d THEN d[key] ELSE default

\* The four border attributes in the order both border_map dicts and the
\* scan of _check_table_has_non_solid_border list them, the keys under which
\* build_logical_table_grid stores them, and their CSS properties.
border_attrs == <<"BorderTop", "BorderBottom", "BorderLeft", "BorderRight">>
border_keys == <<"bt", "bb", "bl", "br">>
css_props == <<"border-top-style", "border-bottom-style",
               "border-left-style", "border-right-style">>

RECURSIVE Concat(_)
Concat(ss) == IF ss = <<>> THEN <<>> ELSE Head(ss) \o Concat(Tail(ss))

\* The values col.get(attr, "solid") in the order the loops over the columns
\* of one row and over the four attributes visit them.
border_values(cols) ==
    Concat([i \in 1..Len(cols) |->
              [k \in 1..4 |-> get(cols[i], border_attrs[k], "solid")]])

\* A scan that stops after the four values of the first column.
first_column_non_solid(values) ==
    \E k \in DOMAIN values : k <= 4 /\ values[k] # "solid"

\* The scan: return True at the first value that is not "solid", False when
\* the values are exhausted.
RECURSIVE any_non_solid(_)
any_non_solid(values) ==
    IF values = <<>> THEN FALSE
    ELSE IF Head(values) # "solid" THEN TRUE
    ELSE any_non_solid(Tail(values))

\* The decision on the body rows alone.
check_body_only(hdr, rows) ==
    any_non_solid(Concat([r \in 1..Len(rows) |-> border_values(rows[r])]))

\* _check_table_has_non_solid_border(table, header, body_rows), which does
\* not read its first argument: the header's
\* columns are scanned first, then the columns of every body row.
_check_table_has_non_solid_border(hdr, rows) ==
    \/ hdr # <<>> /\ any_non_solid(border_values(hdr[1]))
    \/ any_non_solid(Concat([r \in 1..Len(rows) |-> border_values(rows[r])]))

\* An attribute f'{name}="{value}"' of an emitted tag is <<name, value>>; the
\* value of a style attribute is its style_parts, each f"{css_prop}: {val}"
\* being <<css_prop, val>>.
header_style_parts(header_col) ==
    SelectSeq([k \in 1..4 |->
                 <<css_props[k], get(header_col, border_attrs[k], "solid")>>],
              LAMBDA part : part[2] # "solid")

\* th_attrs of one TableHeaderColumn.
th_attrs(header_col, flag) ==
    LET rs == get(header_col, "rowspan", "1")
        cs == get(header_col, "colspan", "1")
    IN  (IF rs # "1" THEN << <<"rowspan", rs>> >> ELSE <<>>)
        \o (IF cs # "1" THEN << <<"colspan", cs>> >> ELSE <<>>)
        \o (IF flag /\ header_style_parts(header_col) # <<>>
            THEN << <<"style", header_style_parts(header_col)>> >>
            ELSE <<>>)

\* The lines of the thead: one th per TableHeaderColumn. col names the
\* TableHeaderColumn a th was made from.
thead_lines(header_row, flag) ==
    <<[tag |-> "thead"], [tag |-> "tr"]>>
    \o [i \in 1..Len(header_row) |->
          [tag |-> "th", attrs |-> th_attrs(header_row[i], flag),
           text |-> header_row[i].text, col |-> i]]
    \o <<[tag |-> "/tr"], [tag |-> "/thead"]>>

\* style_parts of a cell of the logical grid.
cell_style_parts(cell) ==
    SelectSeq([k \in 1..4 |->
                 <<css_props[k], dict_get(cell, border_keys[k], "solid")>>],
              LAMBDA part : part[2] # "solid")

\* td_attrs as a renderer that does not consult has_non_solid_border would
\* build them.
td_attrs_styled(cell, flag) ==
    (IF cell.rs > 1 THEN << <<"rowspan", cell.rs>> >> ELSE <<>>)
    \o (IF cell.colspan > 1 THEN << <<"colspan", cell.colspan>> >> ELSE <<>>)
    \o (IF cell_style_parts(cell) # <<>>
        THEN << <<"style", cell_style_parts(cell)>> >>
        ELSE <<>>)

\* td_attrs of one cell of the logical grid.
td_attrs(cell, flag) ==
    (IF cell.rs > 1 THEN << <<"rowspan", cell.rs>> >> ELSE <<>>)
    \o (IF cell.colspan > 1 THEN << <<"colspan", cell.colspan>> >> ELSE <<>>)
    \o (IF flag /\ cell_style_parts(cell) # <<>>
        THEN << <<"style", cell_style_parts(cell)>> >>
        ELSE <<>>)

\* The td of one cell; xml names the TableColumn it was made from.
td_line(cell, flag) ==
    [tag |-> "td", attrs |-> td_attrs(cell, flag), text |-> cell.text,
     xml |-> cell.xml]

\* The lines of a row as a renderer that emitted an empty td for an occupied
\* position would give them.
row_lines_with_placeholders(row_cells, flag) ==
    <<[tag |-> "tr"]>>
    \o [i \in 1..Len(row_cells) |->
          IF row_cells[i].type = "occupied"
          THEN [tag |-> "td", attrs |-> <<>>, text |-> "", xml |-> <<>>]
          ELSE td_line(row_cells[i], flag)]
    \o <<[tag |-> "/tr"]>>

\* The lines of one row of the logical grid: 'occupied' entries are skipped.
row_lines(row_cells, flag) ==
    <<[tag |-> "tr"]>>
    \o Concat([i \in 1..Len(row_cells) |->
                 IF row_cells[i].type = "occupied" THEN <<>>
                 ELSE <<td_line(row_cells[i], flag)>>])
    \o <<[tag |-> "/tr"]>>

\* process_remarks of a Remarks element, which is modelled by the texts of
\* its Sentence children: one line f"{sent_text}\n" per Sentence, the empty
\* string when there is none.
process_remarks(remarks_elem) ==
    [i \in 1..Len(remarks_elem) |-> <<remarks_elem[i], "\n">>]

\* Bound of the table structures: at most MaxRemarks Remarks elements.
MaxRemarks == 2

\* The Remarks elements: without a Sentence, and with one.
RemarksElements == { <<>>, <<"s">> }

\* The Table elements of the table structures.
StructTables ==
    { Table(None, hdr, rows) :
        hdr \in HeaderRows(1),
        rows \in { <<>>,
                   << <<TableColumn(None, None, "t", None, "none")>> >>,
                   << <<TableColumn("2", None, "t", None, None),
                        TableColumn(None, None, "t", None, None)>>,
                      <<TableColumn(None, None, "t", None, None)>> >> } }

\* A TableStruct element.
TableStruct(TableStructTitle, Remarks, tbl) ==
    [TableStructTitle |-> TableStructTitle, Remarks |-> Remarks, Table |-> tbl]

\* The state common to the start of a rendering.
InitRendering ==
    /\ TABLE_PROCESSING_MODE = "hybrid"
    /\ body_rows = <<>>
    /\ occupied_cells = {}
    /\ logical_rows = <<>>
    /\ r_idx = 0
    /\ current_row_cells = <<>>
    /\ xml_col_idx = 0
    /\ c_idx = 0
    /\ runs = <<>>
    /\ header = <<>>
    /\ has_non_solid_border = FALSE
    /\ html_lines = <<>>
    /\ html = <<>>
    /\ InitAux

\* render_table is called on a Table element.
InitRenderTable ==
    /\ InitRendering
    /\ pc = "render_table"
    /\ ts = <<>>
    /\ \E shape \in RenderShapes :
         \E hdr \in HeaderRows(MaxRenderCells - Sum(shape)) :
           \E cells \in [1..Sum(shape) -> RenderColumns] :
             \E WritingMode \in {None, "vertical-rl"} :
               table = <<Table(WritingMode, hdr, TableOf(shape, cells))>>

\* render_table_struct is called on a TableStruct element.
InitRenderTableStruct ==
    /\ InitRendering
    /\ pc = "render_table_struct"
    /\ table = <<>>
    /\ \E title \in { <<>>, <<"title">> } :
         \E n \in 0..MaxRemarks :
           \E Remarks \in [1..n -> RemarksElements] :
             \E tbl \in { <<>> } \cup { <<t>> : t \in StructTables } :
               ts = <<TableStruct(title, Remarks, tbl)>>

\* render_table_struct up to its call of render_table: the title, then one
\* chunk per Remarks element whose text is not empty, then the Table if
\* there is one.
RenderTableStruct ==
    /\ pc = "render_table_struct"
    /\ html' =
         (IF ts[1].TableStructTitle # <<>>
          THEN <<[tag |-> "div", class |-> "table-struct"],
                 [tag |-> "div", class |-> "table-struct-title",
                  text |-> ts[1].TableStructTitle[1]]>>
          ELSE <<>>)
         \o Concat([i \in 1..Len(ts[1].Remarks) |->
                      IF process_remarks(ts[1].Remarks[i]) # <<>>
                      THEN <<[tag |-> "remarks",
                              text |-> process_remarks(ts[1].Remarks[i])]>>
                      ELSE <<>>])
    /\ table' = ts[1].Table
    /\ pc' = IF ts[1].Table # <<>> THEN "render_table" ELSE "struct_end"
    /\ UNCHANGED aux_vars
    /\ UNCHANGED <<grid_vars_but_pc, ts, header, has_non_solid_border,
                   html_lines>>

\* render_table up to its call of build_logical_table_grid: the opening tag,
\* the style decision, the thead, and the opening of the tbody.
RenderTable ==
    /\ pc = "render_table"
    /\ header' = table[1].TableHeaderRow
    /\ body_rows' = table[1].TableRow
    /\ has_non_solid_border' =
         _check_table_has_non_solid_border(header', body_rows')
    /\ html_lines' =
         <<[tag |-> "table",
            attrs |-> << <<"style", "border-collapse: collapse;">> >>
                      \o (IF get(table[1], "WritingMode", "horizontal-tb")
                               = "vertical-rl"
                          THEN << <<"class", "writing-mode-vertical">> >>
                          ELSE <<>>)]>>
         \o (IF header' # <<>>
             THEN thead_lines(header'[1], has_non_solid_border')
             ELSE <<>>)
         \o (IF body_rows' # <<>> THEN <<[tag |-> "tbody"]>> ELSE <<>>)
    /\ pc' = IF body_rows' # <<>> THEN "render" ELSE "close"
    /\ UNCHANGED aux_vars
    /\ UNCHANGED <<TABLE_PROCESSING_MODE, occupied_cells, logical_rows, r_idx,
                   current_row_cells, xml_col_idx, c_idx, runs, ts, table,
                   html>>

\* render_table after build_logical_table_grid has returned: the rows of the
\* logical grid, and the end of the tbody.
RenderBody ==
    /\ pc = "done"
    /\ html_lines' =
         html_lines
         \o Concat([r \in 1..Len(logical_rows) |->
                      row_lines(logical_rows[r], has_non_solid_border)])
         \o <<[tag |-> "/tbody"]>>
    /\ pc' = "close"
    /\ UNCHANGED aux_vars
    /\ UNCHANGED <<grid_vars_but_pc, ts, table, header, has_non_solid_border,
                   html>>

\* render_table returns its lines, closed by </table>, and the caller
\* appends them to its output.
RenderTableReturn ==
    /\ pc = "close"
    /\ html_lines' = Append(html_lines, [tag |-> "/table"])
    /\ html' = html \o html_lines'
    /\ pc' = IF ts # <<>> THEN "struct_end" ELSE "rendered"
    /\ UNCHANGED aux_vars
    /\ UNCHANGED <<grid_vars_but_pc, ts, table, header, has_non_solid_border>>

\* render_table_struct closes the div it opened for the title.
RenderTableStructReturn ==
    /\ pc = "struct_end"
    /\ html' = html \o (IF ts[1].TableStructTitle # <<>>
                        THEN <<[tag |-> "/div"]>> ELSE <<>>)
    /\ pc' = "rendered"
    /\ UNCHANGED aux_vars
    /\ UNCHANGED <<grid_vars_but_pc, ts, table, header, has_non_solid_border,
                   html_lines>>

NextRenderTable ==
    \/ RenderTable
    \/ Build
    \/ RowBegin
    \/ ScanOccupied
    \/ ScanData
    \/ RowEnd
    \/ Return
    \/ RenderBody
    \/ RenderTableReturn

NextRenderTableStruct ==
    \/ RenderTableStruct
    \/ NextRenderTable
    \/ RenderTableStructReturn

\* render_table on one table.
SpecRenderTable == InitRenderTable /\ [][NextRenderTable]_vars

\* render_table_struct on one table structure.
SpecRenderTableStruct == InitRenderTableStruct /\ [][NextRenderTableStruct]_vars

(***************************************************************************)
(* The vocabulary of the properties: positions, footprints, max_columns.   *)
(***************************************************************************)

\* The visual column at which entry i of a resolved row was appended: c_idx
\* starts at 0 and advances by the colspan of every entry appended.
anchor_column(row, i) == Sum([j \in 1..(i - 1) |-> row[j].colspan])

\* The rows resolved so far, the row being scanned included.
Grid ==
    IF pc = "while" THEN Append(logical_rows, current_row_cells)
    ELSE logical_rows

(***************************************************************************)
(* calculate_rowspan_from_border. No function of the program calls it; the *)
(* model calls it on a cell of a resolved table.                           *)
(***************************************************************************)

\* The TableColumn elements of the tables the inference is made on: a plain
\* cell, explicit row spans of 2 and 0, a cell with text and no bottom
\* border, an empty cell with no top and no bottom border, and a column span.
InferenceColumns ==
    { TableColumn(None, None, "t", None, None),
      TableColumn("2", None, "t", None, "none"),
      TableColumn("0", None, "t", None, None),
      TableColumn(None, None, "t", "none", "none"),
      TableColumn(None, None, "", "none", "none"),
      TableColumn(None, "2", "t", None, None) }

\* if next_border_top == 'none' and not next_text
is_continuation(next_cell) ==
    get(next_cell, "BorderTop", "solid") = "none" /\ next_cell.text = ""

\* The for loop over the following rows, from next_row_idx on: the value of
\* extended_rowspan when the loop ends, and the cells next_cols[col_idx] it
\* has read, as <<row, index>>.
RECURSIVE scan_following_rows(_, _, _, _, _)
scan_following_rows(next_row_idx, col_idx, rows, extended_rowspan, read) ==
    IF next_row_idx >= Len(rows)
    THEN [extended_rowspan |-> extended_rowspan, read |-> read]
    ELSE LET next_cols == rows[next_row_idx + 1]
         IN  IF col_idx < Len(next_cols)
             THEN IF is_continuation(next_cols[col_idx + 1])
                  THEN scan_following_rows(
                           next_row_idx + 1, col_idx, rows,
                           extended_rowspan + 1,
                           Append(read, <<next_row_idx, col_idx>>))
                  ELSE [extended_rowspan |-> extended_rowspan,
                        read |-> Append(read, <<next_row_idx, col_idx>>)]
             ELSE [extended_rowspan |-> extended_rowspan, read |-> read]

\* The inference as a version that counted every following row would make it.
calculate_rowspan_to_last_row(row_idx, col_idx, rows, cell) ==
    [rowspan |-> Len(rows) - row_idx, read |-> <<>>]

\* calculate_rowspan_from_border(table, row_idx, col_idx, body_rows, cell),
\* which does not read its first argument: the row span returned, and the
\* cells of the following rows that were read.
calculate_rowspan_from_border(row_idx, col_idx, rows, cell) ==
    LET declared == int[get(cell, "rowspan", "1")]
        scan == scan_following_rows(row_idx + 1, col_idx, rows, 1, <<>>)
    IN  IF declared > 1
        THEN [rowspan |-> declared, read |-> <<>>]
        ELSE IF get(cell, "BorderBottom", "solid") = "none" /\ cell.text # ""
             THEN [rowspan |-> IF scan.extended_rowspan > 1
                               THEN scan.extended_rowspan ELSE declared,
                   read |-> scan.read]
             ELSE [rowspan |-> declared, read |-> <<>>]

\* build_logical_table_grid is called on the rows of a table.
InitInference ==
    /\ TABLE_PROCESSING_MODE = "hybrid"
    /\ \E shape \in Shapes :
         \E cells \in [1..Sum(shape) -> InferenceColumns] :
            body_rows = TableOf(shape, cells)
    /\ pc = "render"
    /\ occupied_cells = {}
    /\ logical_rows = <<>>
    /\ r_idx = 0
    /\ current_row_cells = <<>>
    /\ xml_col_idx = 0
    /\ c_idx = 0
    /\ runs = <<>>
    /\ ts = <<>>
    /\ table = <<>>
    /\ header = <<>>
    /\ has_non_solid_border = FALSE
    /\ html_lines = <<>>
    /\ html = <<>>
    /\ InitAux

\* calculate_rowspan_from_border is called for the TableColumn with index i
\* of row row_idx. There being no caller, col_idx is either of the two
\* columns a caller has for the cell: its index among the TableColumn
\* children of its row, or the grid column it is anchored at.
Infer(row_idx, i, col_idx) ==
    /\ pc = "done"
    /\ row_idx \in 0..(Len(body_rows) - 1)
    /\ i \in 0..(Len(body_rows[row_idx + 1]) - 1)
    /\ col_idx \in
         { i } \cup
         { anchor_column(logical_rows[row_idx + 1], e) :
             e \in { e \in DOMAIN logical_rows[row_idx + 1] :
                       /\ logical_rows[row_idx + 1][e].type = "data"
                       /\ logical_rows[row_idx + 1][e].xml = <<row_idx, i>> } }
    /\ inference' =
         <<[row_idx |-> row_idx, col_idx |-> col_idx, cell |-> <<row_idx, i>>,
            result |-> calculate_rowspan_from_border(
                           row_idx, col_idx, body_rows,
                           body_rows[row_idx + 1][i + 1])]>>
    /\ pc' = "inferred"
    /\ UNCHANGED <<TABLE_PROCESSING_MODE, body_rows, occupied_cells,
                   logical_rows, r_idx, current_row_cells, xml_col_idx, c_idx,
                   runs>>
    /\ UNCHANGED render_vars
    /\ UNCHANGED <<tables, fs, save>>

NextInference ==
    \/ NextResolve
    \/ \E row_idx \in 0..(MaxRows - 1) :
         \E i, col_idx \in 0..(2 * MaxCells) :
           Infer(row_idx, i, col_idx)

\* A table is resolved, then the inference is made for one of its cells.
SpecInference == InitInference /\ [][NextInference]_vars

\* The <<row, entry>> indices (1-based) of all entries, and of the Origin
\* ('data') entries, of a grid.
Entries(grid) ==
    UNION { { <<r, i>> : i \in 1..Len(grid[r]) } : r \in 1..Len(grid) }

DataCells(grid) == { p \in Entries(grid) : grid[p[1]][p[2]].type = "data" }

\* The 0-based <<row, column>> anchor of an entry.
Anchor(grid, p) == <<p[1] - 1, anchor_column(grid[p[1]], p[2])>>

\* The positions an entry claims: rs x colspan from its anchor.
Footprint(grid, p) ==
    LET cell == grid[p[1]][p[2]]
        a == Anchor(grid, p)
    IN { <<a[1] + dr, a[2] + dc>> :
            dr \in 0..(cell.rs - 1), dc \in 0..(cell.colspan - 1) }

Max(S) == CHOOSE m \in S : \A x \in S : x <= m

\* max_columns: the maximum over the declared rows of the sum of the row's
\* col_span values.
max_columns ==
    Max({ Sum([i \in 1..Len(body_rows[r]) |-> colspan(body_rows[r][i])]) :
            r \in 1..Len(body_rows) })

\* The rows x max_columns rectangle, 0-based.
Rectangle == (0..(Len(body_rows) - 1)) \X (0..(max_columns - 1))

\* The Origin cells whose footprint holds a position.
Covering(grid, pos) == { p \in DataCells(grid) : pos \in Footprint(grid, p) }

\* Every declared row holds at least one TableColumn.
EveryRowDeclaresACell == \A r \in 1..Len(body_rows) : Len(body_rows[r]) > 0

\* The entry of a row that lies over column c, if any.
EntriesOver(grid, r, c) ==
    { p \in Entries(grid) :
        /\ p[1] = r + 1
        /\ Anchor(grid, p)[2] <= c
        /\ c < Anchor(grid, p)[2] + grid[p[1]][p[2]].colspan }

\* The TableColumn elements the scenarios are written with.
Plain == TableColumn(None, None, "t", None, None)
RowSpan2 == TableColumn("2", None, "t", None, None)
ColSpan2 == TableColumn(None, "2", "t", None, None)
BottomNone == TableColumn(None, None, "t", None, "none")
TopNoneEmpty == TableColumn(None, None, "", "none", None)

(***************************************************************************)
(* C1. Coverage invariant: once a table is resolved, every position of     *)
(* the rows x max_columns rectangle lies in the footprint of exactly one   *)
(* Origin cell (no gap, no double coverage). Stated for the tables whose    *)
(* rows all declare a cell.                                                *)
(***************************************************************************)
C1_Coverage ==
    (pc = "done" /\ EveryRowDeclaresACell) =>
        \A pos \in Rectangle : Cardinality(Covering(logical_rows, pos)) = 1

(***************************************************************************)
(* C2. No two Origin cells' footprints overlap in a resolved table.        *)
(***************************************************************************)
C2_NoOverlap ==
    pc = "done" =>
        \A p, q \in DataCells(logical_rows) :
            p # q => Footprint(logical_rows, p) \cap Footprint(logical_rows, q) = {}

(***************************************************************************)
(* C3. Precedence by processing order: in every step of a row's scan, if   *)
(* the current position lies in the footprint of an Origin of an earlier   *)
(* row, the step records it as Covered, consumes no declared cell and      *)
(* moves one column right; otherwise the step either anchors the next      *)
(* declared cell at the current position or, all declared cells being      *)
(* placed, ends the row. No declared cell is dropped.                      *)
(***************************************************************************)
SpannedFromAbove ==
    UNION { Footprint(logical_rows, p) : p \in DataCells(logical_rows) }

C3_Precedence ==
    [][ pc = "while" =>
          IF <<r_idx, c_idx>> \in SpannedFromAbove
          THEN /\ current_row_cells' = Append(current_row_cells, occupied_cell)
               /\ xml_col_idx' = xml_col_idx
               /\ c_idx' = c_idx + 1
               /\ pc' = "while"
          ELSE \/ /\ xml_col_idx < Len(xml_cols)
                  /\ Len(current_row_cells') = Len(current_row_cells) + 1
                  /\ SubSeq(current_row_cells', 1, Len(current_row_cells))
                        = current_row_cells
                  /\ LET cell == current_row_cells'[Len(current_row_cells')]
                     IN /\ cell.type = "data"
                        /\ cell.xml = <<r_idx, xml_col_idx>>
                  /\ anchor_column(current_row_cells', Len(current_row_cells'))
                        = c_idx
                  /\ xml_col_idx' = xml_col_idx + 1
                  /\ pc' = "while"
               \/ /\ xml_col_idx = Len(xml_cols)
                  /\ logical_rows' = Append(logical_rows, current_row_cells)
                  /\ pc' = "for"
      ]_vars

\* A resolved row in which a declared cell was shifted right of a position
\* reserved from above.
C3_Witness ==
    /\ pc = "done"
    /\ \E p \in DataCells(logical_rows) :
          /\ p[2] > 1
          /\ logical_rows[p[1]][p[2] - 1].type = "occupied"

(***************************************************************************)
(* C4. Explicit rowspan: [[A(row_span=2), B], [C]] resolves to             *)
(* [[A, B], [Covered, C]] with A's footprint {(0,0), (1,0)}; and every     *)
(* Origin with row span k anchored at (r, c) has a Covered entry at        *)
(* (r+i, c) for every 1 <= i < k inside the table.                         *)
(***************************************************************************)
C4_ExplicitRowspan ==
    (pc = "done" /\ EveryRowDeclaresACell) =>
        /\ body_rows = << <<RowSpan2, Plain>>, <<Plain>> >> =>
              /\ [r \in 1..2 |-> [i \in 1..2 |-> logical_rows[r][i].type]]
                    = << <<"data", "data">>, <<"occupied", "data">> >>
              /\ Footprint(logical_rows, <<1, 1>>) = { <<0, 0>>, <<1, 0>> }
        /\ \A p \in DataCells(logical_rows) :
              \A i \in 1..(logical_rows[p[1]][p[2]].rs - 1) :
                 LET a == Anchor(logical_rows, p)
                 IN a[1] + i < Len(body_rows) =>
                       \E q \in Entries(logical_rows) :
                          /\ logical_rows[q[1]][q[2]].type = "occupied"
                          /\ Anchor(logical_rows, q) = <<a[1] + i, a[2]>>

(***************************************************************************)
(* C5. Hybrid inference: [[X(border_bottom=none)], [Y(border_top=none,     *)
(* text="")]] resolves in hybrid mode to X with row span 2 and (1,0)       *)
(* Covered, and in strict mode to two independent Origin cells.            *)
(***************************************************************************)
C5_HybridInference ==
    (pc = "done" /\ body_rows = << <<BottomNone>>, <<TopNoneEmpty>> >>) =>
        IF TABLE_PROCESSING_MODE = "hybrid"
        THEN /\ Len(logical_rows[1]) = 1
             /\ logical_rows[1][1].type = "data"
             /\ logical_rows[1][1].rs = 2
             /\ logical_rows[2] = <<occupied_cell>>
        ELSE /\ Len(logical_rows[1]) = 1
             /\ logical_rows[1][1].type = "data"
             /\ logical_rows[1][1].rs = 1
             /\ Len(logical_rows[2]) = 1
             /\ logical_rows[2][1].type = "data"
             /\ logical_rows[2][1].text = ""

(***************************************************************************)
(* C6. Strict-mode no-op: for a table in which no cell with bottom border  *)
(* none and non-empty text is followed in the next row by a cell with top  *)
(* border none and empty text, the grid resolved in hybrid mode and the    *)
(* grid resolved in strict mode are identical.                             *)
(***************************************************************************)
InferenceEligible ==
    \E r \in 1..(Len(body_rows) - 1) :
       \E i \in 1..Len(body_rows[r]) :
          /\ body_rows[r][i].BorderBottom = "none"
          /\ body_rows[r][i].text # ""
          /\ i <= Len(body_rows[r + 1])
          /\ body_rows[r + 1][i].BorderTop = "none"
          /\ body_rows[r + 1][i].text = ""

C6_ModesCoincide ==
    (pc = "done" /\ runs # <<>> /\ ~ InferenceEligible) =>
        /\ runs[1].mode # TABLE_PROCESSING_MODE
        /\ runs[1].grid = logical_rows

\* Both conversions of a table that carries none-borders, but no eligible
\* pattern, are complete.
C6_Witness ==
    /\ pc = "done"
    /\ runs # <<>>
    /\ ~ InferenceEligible
    /\ \E r \in 1..Len(body_rows) : \E i \in 1..Len(body_rows[r]) :
          body_rows[r][i] = BottomNone
    /\ \E r \in 1..Len(body_rows) : \E i \in 1..Len(body_rows[r]) :
          body_rows[r][i] = TopNoneEmpty

(***************************************************************************)
(* C7. Short rows are padded: in a resolved table every position of every  *)
(* row up to max_columns is filled by an entry of that row.                *)
(***************************************************************************)
C7_ShortRowsPadded ==
    (pc = "done" /\ EveryRowDeclaresACell) =>
        \A pos \in Rectangle : EntriesOver(logical_rows, pos[1], pos[2]) # {}

(***************************************************************************)
(* C8. Row-span clipping: an Origin anchored in row r of a table of n rows *)
(* has a resolved row span of at most n - r, and no position outside rows  *)
(* 0..n-1 is ever reserved.                                                *)
(***************************************************************************)
C8_RowSpanClipped ==
    /\ \A pos \in occupied_cells : pos[1] \in 0..(Len(body_rows) - 1)
    /\ pc = "done" =>
          \A p \in DataCells(logical_rows) :
             logical_rows[p[1]][p[2]].rs <= Len(body_rows) - (p[1] - 1)

(***************************************************************************)
(* C9. Col-span truncation: the footprint of an Origin anchored inside the *)
(* grid (at a column below max_columns) does not extend past column        *)
(* max_columns - 1.                                                        *)
(***************************************************************************)
C9_ColSpanTruncated ==
    pc = "done" =>
        \A p \in DataCells(logical_rows) :
           Anchor(logical_rows, p)[2] < max_columns =>
              Anchor(logical_rows, p)[2] + logical_rows[p[1]][p[2]].colspan
                 <= max_columns

(***************************************************************************)
(* C10. Invalid span surfaced: a table with a declared cell of negative    *)
(* row or column span is never resolved to a returned grid, and no cell    *)
(* built from such a declaration is placed in the grid.                    *)
(***************************************************************************)
NegativeSpan(col_xml) == rowspan(col_xml) < 0 \/ colspan(col_xml) < 0

C10_InvalidSpanSurfaced ==
    /\ (\E r \in 1..Len(body_rows) : \E i \in 1..Len(body_rows[r]) :
           NegativeSpan(body_rows[r][i])) => pc # "done"
    /\ \A p \in DataCells(Grid) :
          /\ Grid[p[1]][p[2]].rs >= 0
          /\ Grid[p[1]][p[2]].colspan >= 0

(***************************************************************************)
(* The vocabulary of the properties of the rendering.                      *)
(***************************************************************************)

\* render_table has returned to its caller.
Rendered == pc = "rendered"

\* The style decision has been taken for the table being rendered.
Decided == pc \in {"render", "for", "while", "done", "close", "rendered"}

\* The TableHeaderColumn and the TableColumn elements of the table.
HeaderCells == IF header = <<>> THEN {} ELSE { header[1][i] : i \in DOMAIN header[1] }
BodyCells ==
    UNION { { body_rows[r][i] : i \in DOMAIN body_rows[r] } :
              r \in DOMAIN body_rows }

\* The border styles the format defines.
BorderStyles == {"solid", "none", "dotted", "double"}

\* The indices of the th and td lines of the output of render_table.
CellLines == { i \in DOMAIN html_lines : html_lines[i].tag \in {"th", "td"} }

\* The style parts written into an emitted tag: <<>> without a style attribute.
StyleParts(line) ==
    LET style == SelectSeq(line.attrs, LAMBDA attr : attr[1] = "style")
    IN  IF style = <<>> THEN <<>> ELSE style[1][2]

\* C11: a border value outside solid/none/dotted/double is treated as solid:
\* the style decision is true only if some border of some cell is none,
\* dotted or double, and no such value is written into a style attribute.
C11_MalformedNormalized ==
    Rendered =>
        /\ has_non_solid_border =>
              \E cell \in HeaderCells \cup BodyCells :
                \E k \in 1..4 :
                  cell[border_attrs[k]] \in BorderStyles \ {"solid"}
        /\ \A i \in CellLines :
              \A k \in DOMAIN StyleParts(html_lines[i]) :
                StyleParts(html_lines[i])[k][2] \in BorderStyles \cup {None}

\* The rows of the output between <tbody> and </tbody>: for each tr, the
\* sequence of its td lines.
RECURSIVE RowsOf(_, _, _)
RowsOf(lines, rows, in_body) ==
    IF lines = <<>> THEN rows
    ELSE LET line == Head(lines)
         IN  IF line.tag = "tbody" THEN RowsOf(Tail(lines), rows, TRUE)
             ELSE IF line.tag = "/tbody" THEN RowsOf(Tail(lines), rows, FALSE)
             ELSE IF in_body /\ line.tag = "tr"
                  THEN RowsOf(Tail(lines), Append(rows, <<>>), TRUE)
             ELSE IF in_body /\ line.tag = "td"
                  THEN RowsOf(Tail(lines),
                              [rows EXCEPT ![Len(rows)] = Append(@, line)],
                              TRUE)
             ELSE RowsOf(Tail(lines), rows, in_body)

RenderedRows == RowsOf(html_lines, <<>>, FALSE)

\* The th lines of the output.
RenderedHeader == SelectSeq(html_lines, LAMBDA line : line.tag = "th")

\* C12: a table without a header row and with at least one body row is
\* rendered with its first body row as the header (one header cell per cell
\* of that row) and the remaining rows, in order, as the body.
C12_HeaderPromotion ==
    (Rendered /\ header = <<>> /\ body_rows # <<>>) =>
        /\ \E i \in DOMAIN html_lines : html_lines[i].tag = "thead"
        /\ Len(RenderedHeader) = Len(body_rows[1])
        /\ Len(RenderedRows) = Len(body_rows) - 1
        /\ \A r \in DOMAIN RenderedRows :
             \A i \in DOMAIN RenderedRows[r] :
               RenderedRows[r][i].xml[1] = r

\* C13: a table with no header row and no body rows is rendered as nothing:
\* render_table returns no line at all.
C13_EmptyTableRendersNothing ==
    (Rendered /\ header = <<>> /\ body_rows = <<>>) => html_lines = <<>>

\* A declared row whose first cell declares a column span above one.
IsRemarkRow(row_xml) == row_xml # <<>> /\ colspan(row_xml[1]) > 1

\* C14: a declared row whose first cell has colspan > 1 is not a row of the
\* grid and is not rendered as a table row: the grid has one row per other
\* declared row, and no cell of the grid or of the output comes from it.
C14_RemarkRowExcluded ==
    Rendered =>
        /\ Len(logical_rows) =
             Cardinality({ r \in DOMAIN body_rows : ~ IsRemarkRow(body_rows[r]) })
        /\ \A r \in DOMAIN logical_rows :
             \A i \in DOMAIN logical_rows[r] :
               logical_rows[r][i].type = "data" =>
                 ~ IsRemarkRow(body_rows[logical_rows[r][i].xml[1] + 1])
        /\ \A i \in CellLines :
             html_lines[i].tag = "td" =>
               ~ IsRemarkRow(body_rows[html_lines[i].xml[1] + 1])

\* C15: in the output of render_table_struct every remark of the table
\* structure comes after the closing </table> of its table, none before the
\* table and none between its opening and closing lines.
C15_RemarksAfterTable ==
    (Rendered /\ ts # <<>>) =>
        \A i \in DOMAIN html :
          html[i].tag = "remarks" =>
            \A j \in DOMAIN html :
              html[j].tag \in {"table", "/table"} => j < i

\* C16: the style decision of a table is true if and only if one of the four
\* border attributes of one of its header or body cells is present with a
\* value other than solid.
C16_StyleDecision ==
    Rendered =>
        (has_non_solid_border <=>
            \E cell \in HeaderCells \cup BodyCells :
              \E k \in 1..4 :
                cell[border_attrs[k]] \notin {None, "solid"})

\* C16 witness: the decision is true on account of a header cell alone.
C16_Witness ==
    /\ Rendered
    /\ has_non_solid_border
    /\ BodyCells # {}
    /\ \A cell \in BodyCells :
         \A k \in 1..4 : cell[border_attrs[k]] \in {None, "solid"}

\* A sequence rearranged by a permutation of its indices.
Permuted(seq, f) == [i \in 1..Len(seq) |-> seq[f[i]]]

\* The decision of a scan that visits the body rows before the header.
check_body_before_header(hdr, rows) ==
    any_non_solid(
        Concat([r \in 1..Len(rows) |-> border_values(rows[r])])
        \o (IF hdr # <<>> THEN border_values(hdr[1]) ELSE <<>>))

\* C17: the style decision is a function of the table that does not depend
\* on the order of the scan: computing it again gives the same boolean, and
\* so does computing it with the rows permuted, with the cells of a body row
\* or of the header row permuted, or with the body scanned before the header.
C17_OrderIndependent ==
    Rendered =>
        /\ _check_table_has_non_solid_border(header, body_rows)
             = has_non_solid_border
        /\ \A f \in Permutations(DOMAIN body_rows) :
             _check_table_has_non_solid_border(header, Permuted(body_rows, f))
               = has_non_solid_border
        /\ \A r \in DOMAIN body_rows :
             \A g \in Permutations(DOMAIN body_rows[r]) :
               _check_table_has_non_solid_border(
                   header, [body_rows EXCEPT ![r] = Permuted(@, g)])
                 = has_non_solid_border
        /\ header # <<>> =>
             \A g \in Permutations(DOMAIN header[1]) :
               _check_table_has_non_solid_border(
                   <<Permuted(header[1], g)>>, body_rows)
                 = has_non_solid_border
        /\ check_body_before_header(header, body_rows) = has_non_solid_border

\* C17 witness: the scan returns early or late depending on the order: the
\* first row scanned is all solid and a later row has a non-solid border.
C17_Witness ==
    /\ Rendered
    /\ has_non_solid_border
    /\ header = <<>>
    /\ Len(body_rows) >= 2
    /\ body_rows[1] # <<>>
    /\ ~ any_non_solid(border_values(body_rows[1]))
    /\ any_non_solid(border_values(body_rows[Len(body_rows)]))

\* The emitted tag carries a style attribute.
HasStyle(line) == \E k \in DOMAIN line.attrs : line.attrs[k][1] = "style"

\* C18: when the style decision of a table is false, no th and no td of its
\* output carries a border style, whatever the cells declare.
C18_WholeTableSuppression ==
    (Rendered /\ ~ has_non_solid_border) =>
        \A i \in CellLines : ~ HasStyle(html_lines[i])

\* C18 witness: the decision is false for a rendered table with a header cell
\* and a body cell that declare solid explicitly.
C18_Witness ==
    /\ Rendered
    /\ ~ has_non_solid_border
    /\ \E cell \in HeaderCells : cell.BorderTop = "solid"
    /\ \E cell \in BodyCells : cell.BorderTop = "solid"
    /\ \E i, j \in CellLines :
         html_lines[i].tag = "th" /\ html_lines[j].tag = "td"

\* The element an emitted th or td was made from.
SourceOf(line) ==
    IF line.tag = "th" THEN header[1][line.col]
    ELSE body_rows[line.xml[1] + 1][line.xml[2] + 1]

\* The edge (index into border_attrs) a CSS property stands for.
EdgeOf(css_prop) == CHOOSE k \in 1..4 : css_props[k] = css_prop

\* C19: a border style is written for an edge of a th or td only when the
\* style decision of the table is true and the cell's border attribute for
\* that edge, read as solid when absent, differs from solid.
C19_PerEdgeEmission ==
    Rendered =>
        \A i \in CellLines :
          \A p \in DOMAIN StyleParts(html_lines[i]) :
            /\ has_non_solid_border
            /\ get(SourceOf(html_lines[i]),
                   border_attrs[EdgeOf(StyleParts(html_lines[i])[p][1])],
                   "solid") # "solid"

\* The TableColumn elements (as <<row, index>>) a sequence of grid entries or
\* of td lines stands for, in order.
XmlOf(seq) == [i \in 1..Len(seq) |-> seq[i].xml]

\* C20: every row of the logical grid is rendered as one row whose td lines
\* are the row's 'data' cells, once each and in grid order, with nothing for
\* an 'occupied' entry; so a row has as many td lines as the TableRow has
\* TableColumn children.
C20_RendererEmission ==
    Rendered =>
        /\ Len(RenderedRows) = Len(logical_rows)
        /\ \A r \in DOMAIN RenderedRows :
             /\ XmlOf(RenderedRows[r]) =
                  XmlOf(SelectSeq(logical_rows[r],
                                  LAMBDA cell : cell.type = "data"))
             /\ Len(RenderedRows[r]) = Len(body_rows[r])

\* C20 witness: a rendered row of the grid holds an 'occupied' entry next to
\* a 'data' cell.
C20_Witness ==
    /\ Rendered
    /\ \E r \in DOMAIN logical_rows :
         \E i, j \in DOMAIN logical_rows[r] :
           /\ logical_rows[r][i].type = "occupied"
           /\ logical_rows[r][j].type = "data"

\* The emitted tag carries the named attribute.
HasAttr(line, name) == \E k \in DOMAIN line.attrs : line.attrs[k][1] = name

\* C21: a rendered th or td carries a rowspan attribute if and only if the
\* row span of the cell it was made from is above one, and a colspan
\* attribute if and only if its column span is above one.
C21_SpanAttributesMinimal ==
    Rendered =>
        \A i \in CellLines :
          /\ HasAttr(html_lines[i], "rowspan")
               <=> rowspan(SourceOf(html_lines[i])) > 1
          /\ HasAttr(html_lines[i], "colspan")
               <=> colspan(SourceOf(html_lines[i])) > 1

\* C22: every cell of an explicit header row is rendered with row span 1,
\* whatever row span it declares: no th carries a rowspan attribute.
C22_HeaderRowSpanForcedToOne ==
    Rendered =>
        \A i \in CellLines :
          html_lines[i].tag = "th" => ~ HasAttr(html_lines[i], "rowspan")

\* C23: grid resolution terminates on every table, whatever its spans: every
\* pass of the while loop over a row either consumes one declared cell or
\* moves one column past a reserved position, and the function returns.
C23_Termination ==
    /\ [][(pc = "while" /\ pc' = "while") =>
            \/ /\ ~ is_occupied(r_idx, c_idx)
               /\ xml_col_idx' = xml_col_idx + 1
            \/ /\ is_occupied(r_idx, c_idx)
               /\ xml_col_idx' = xml_col_idx
               /\ c_idx' = c_idx + 1]_vars
    /\ <>(pc = "done")

\* C23 witness: the function has returned on a table with a span that reaches
\* below the last row and a row in which a reserved position was passed.
C23_Witness ==
    /\ pc = "done"
    /\ \E p \in DataCells(logical_rows) :
         p[1] + logical_rows[p[1]][p[2]].rs - 1 > Len(body_rows)
    /\ \E p \in Entries(logical_rows) :
         logical_rows[p[1]][p[2]].type = "occupied"

\* C24: the grid resolved for a table depends on its declared rows only: the
\* table resolved again after another table of the same document gets the
\* grid it got when it was resolved first.
C24_TablesIndependent ==
    pc = "done" =>
        \A i \in DOMAIN runs :
          runs[i].rows = body_rows => runs[i].grid = logical_rows

\* C24 witness: the table has been resolved a second time, after a table with
\* a span that reaches below its own last row, into rows the table has.
C24_Witness ==
    /\ pc = "done"
    /\ Len(runs) = 2
    /\ runs[1].rows = body_rows
    /\ runs[2].rows # body_rows
    /\ Len(body_rows) >= 2
    /\ EveryRowDeclaresACell
    /\ \E p \in DataCells(runs[2].grid) :
         /\ p[1] = Len(runs[2].rows)
         /\ runs[2].grid[p[1]][p[2]].rs > 1

\* C25: the reservation of a cell anchored at row r with row span k covers
\* the rows r..r+k-1 and no row after them: the occupancy set is exactly the
\* footprints of the cells placed, their anchors left out, and an entry of
\* the grid is 'occupied' only at a position inside the footprint of a cell;
\* so at row r+k the column is free for the next declared cell.
C25_OccupancyRelease ==
    pc = "done" =>
        /\ occupied_cells =
             UNION { Footprint(logical_rows, p) \ {Anchor(logical_rows, p)} :
                       p \in DataCells(logical_rows) }
        /\ \A e \in Entries(logical_rows) :
             logical_rows[e[1]][e[2]].type = "occupied" =>
               Covering(logical_rows, Anchor(logical_rows, e)) # {}

\* C25 witness: a cell with row span k > 1 anchored at (r, c), and a declared
\* cell of row r+k anchored at (r+k, c).
C25_Witness ==
    /\ pc = "done"
    /\ \E p, q \in DataCells(logical_rows) :
         /\ logical_rows[p[1]][p[2]].rs > 1
         /\ Anchor(logical_rows, q) =
              <<Anchor(logical_rows, p)[1] + logical_rows[p[1]][p[2]].rs,
                Anchor(logical_rows, p)[2]>>

(***************************************************************************)
(* The vocabulary of the properties of the inference.                      *)
(***************************************************************************)

\* calculate_rowspan_from_border has returned.
Inferred == pc = "inferred"

\* The TableColumn the inference was made for.
InferenceCell == body_rows[inference[1].cell[1] + 1][inference[1].cell[2] + 1]

\* Row r has a TableColumn with index col_idx, and it is a continuation: no
\* top border and no text.
ContinuesAt(r, col_idx) ==
    /\ r < Len(body_rows)
    /\ col_idx < Len(body_rows[r + 1])
    /\ body_rows[r + 1][col_idx + 1].BorderTop = "none"
    /\ body_rows[r + 1][col_idx + 1].text = ""

\* The number of consecutive rows immediately after row_idx that continue.
ContinuationRows(row_idx, col_idx) ==
    Max({ n \in 0..Len(body_rows) :
            \A j \in 1..n : ContinuesAt(row_idx + j, col_idx) })

\* The inference is by the borders: the cell has text and no bottom border.
BorderRuleApplies ==
    InferenceCell.BorderBottom = "none" /\ InferenceCell.text # ""

GridColumn(xml) ==
    LET row == logical_rows[xml[1] + 1]
    IN  anchor_column(row, CHOOSE e \in DOMAIN row :
                             row[e].type = "data" /\ row[e].xml = xml)

\* The TableColumn elements of row r anchored at grid column c.
AnchoredAt(r, c) ==
    { <<r, i>> : i \in { i \in 0..(Len(body_rows[r + 1]) - 1) :
                           GridColumn(<<r, i>>) = c } }

\* C27: the scan of the following rows reads the cell in the grid column of
\* the originating cell and no cell of another column: every cell read is
\* anchored at that column, and where the next row has a cell anchored at
\* that column, it is the cell read first.
C27_SameColumnScan ==
    (Inferred /\ BorderRuleApplies
       /\ SpanAttr(InferenceCell, "rowspan") <= 1) =>
        LET inf == inference[1]
            c == GridColumn(inf.cell)
        IN  /\ \A k \in DOMAIN inf.result.read :
                 GridColumn(inf.result.read[k]) = c
            /\ inf.row_idx + 1 < Len(body_rows) =>
                 \A xml \in AnchoredAt(inf.row_idx + 1, c) :
                   inf.result.read # <<>> /\ inf.result.read[1] = xml

\* The answers that are a 'y' and those that are an 'n' once normalised.
YesAnswers ==
    { <<"y">>, <<"Y">>, <<FullWidth_y>>, <<FullWidth_Y>>, <<" ", "y", " ">> }
NoAnswers == { <<"n">>, <<"N">>, <<FullWidth_N>>, <<FullWidth_n, " ">> }

\* C28: save_markdown_file changes the file only in its write step, and
\* where the file existed and force_overwrite is false only after the last
\* answer was a 'y'; an 'n' makes it return False with the file as it was;
\* any other answer repeats the prompt with nothing written; with
\* force_overwrite, or without an existing file, it writes unprompted.
C28_OverwriteProtection ==
    [][/\ fs' # fs =>
            /\ pc = "write"
            /\ (save[1].before # <<>> /\ ~ save[1].force_overwrite) =>
                  /\ save[1].answers # <<>>
                  /\ save[1].answers[Len(save[1].answers)] \in YesAnswers
       /\ (pc = "prompt" /\ save' # save) =>
            LET answer == save'[1].answers[Len(save'[1].answers)]
            IN  /\ fs' = fs
                /\ answer \in YesAnswers => pc' = "write"
                /\ answer \in NoAnswers =>
                     /\ pc' = "saved"
                     /\ save'[1].result = "False"
                     /\ fs' = save[1].before
                /\ answer \notin YesAnswers \cup NoAnswers => pc' = "prompt"
       /\ (pc = "save_markdown_file"
             /\ (save[1].force_overwrite \/ fs = <<>>)) =>
            pc' = "write" /\ save'[1].answers = <<>>
       /\ (pc = "save_markdown_file"
             /\ ~ (save[1].force_overwrite \/ fs = <<>>)) =>
            pc' = "prompt"
      ]_vars

\* C28 witness: an existing file was overwritten, without force_overwrite,
\* after an answer that is neither and then a full-width Y.
C28_Witness ==
    /\ pc = "saved"
    /\ save[1].before = <<"old">>
    /\ ~ save[1].force_overwrite
    /\ Len(save[1].answers) = 2
    /\ save[1].answers[1] \notin YesAnswers \cup NoAnswers
    /\ save[1].answers[2] = <<FullWidth_Y>>
    /\ save[1].result = "True"
    /\ fs = <<"new">>

\* The attribute is present and is not a number.
NonNumeric(attr) == attr # None /\ attr \notin {"-1", "0", "1", "2", "3"}

\* The entries of the grid made from the TableColumn with index i of row r.
EntriesOf(r, i) ==
    { e \in Entries(logical_rows) :
        /\ logical_rows[e[1]][e[2]].type = "data"
        /\ logical_rows[e[1]][e[2]].xml = <<r, i>> }

\* C29: a cell whose rowspan (colspan) attribute is not a number is placed
\* once, in its row, with row span (column span) 1 and with its other span
\* as declared.
C29_NonNumericSpanIsOne ==
    pc = "done" =>
        \A r \in DOMAIN body_rows :
          \A i \in DOMAIN body_rows[r] :
            LET col_xml == body_rows[r][i]
                entries == EntriesOf(r - 1, i - 1)
            IN  /\ Cardinality(entries) = 1
                /\ \A e \in entries :
                     /\ e[1] = r
                     /\ NonNumeric(col_xml.rowspan) =>
                          logical_rows[e[1]][e[2]].rs = 1
                     /\ NonNumeric(col_xml.colspan) =>
                          logical_rows[e[1]][e[2]].colspan = 1
                     /\ col_xml.rowspan = "2" =>
                          logical_rows[e[1]][e[2]].rs = 2
                     /\ col_xml.colspan = "2" =>
                          logical_rows[e[1]][e[2]].colspan = 2

\* C29 witness: a grid with a cell of rowspan "abc" and colspan "2" and a
\* cell of rowspan "2" and colspan "x".
C29_Witness ==
    /\ pc = "done"
    /\ \E r \in DOMAIN body_rows :
         \E i \in DOMAIN body_rows[r] :
           body_rows[r][i].rowspan = "abc" /\ body_rows[r][i].colspan = "2"
    /\ \E r \in DOMAIN body_rows :
         \E i \in DOMAIN body_rows[r] :
           body_rows[r][i].rowspan = "2" /\ body_rows[r][i].colspan = "x"

\* C30: the grid has one row per declared body row, in the declared order
\* (the cells of grid row r come from declared row r; a declared row without
\* cells and without a reserved first position gives an empty grid row), and
\* the output has one table row per grid row.
C30_RowsPreserved ==
    Rendered =>
        /\ Len(logical_rows) = Len(body_rows)
        /\ \A e \in DataCells(logical_rows) :
             logical_rows[e[1]][e[2]].xml[1] = e[1] - 1
        /\ \A r \in DOMAIN body_rows :
             \A i \in DOMAIN body_rows[r] :
               \E e \in DOMAIN logical_rows[r] :
                 /\ logical_rows[r][e].type = "data"
                 /\ logical_rows[r][e].xml = <<r - 1, i - 1>>
        /\ \A r \in DOMAIN body_rows :
             (body_rows[r] = <<>> /\ <<r - 1, 0>> \notin occupied_cells) =>
               logical_rows[r] = <<>>
        /\ Len(RenderedRows) = Len(logical_rows)

\* C30 witness: a table whose first row declares no cell and whose second
\* row declares one has been rendered.
C30_Witness ==
    /\ Rendered
    /\ Len(body_rows) >= 2
    /\ body_rows[1] = <<>>
    /\ logical_rows[1] = <<>>
    /\ body_rows[2] # <<>>
    /\ Len(RenderedRows) = Len(body_rows)

====
